---- MODULE Spec2Model ----
(***************************************************************************)
(* A model of denoflare's fetch-over-RPC bridge (rpc_fetch): the Bodies    *)
(* registry, packResponse, the caller-side body stream built by            *)
(* makeBodyResolverOverRpc and the 'read-body-chunk' handler.              *)
(*                                                                         *)
(* Optional values (number | undefined, Uint8Array | undefined) are        *)
(* sequences of length at most one: << >> is undefined, <<v>> is v.        *)
(* The code never inspects a chunk's bytes, so the k-th chunk of the       *)
(* stream with reference ref is the pair <<ref, k>>: chunks of different    *)
(* streams and positions are all different.                                *)
(***************************************************************************)
EXTENDS Integers, Sequences, FiniteSets, Bags, TLC

\* ------------------------------------------------------------------ bounds
\* bodies registered (computeBodyId calls with a stream) per run
MaxBodies == 2
\* chunks a source stream produces at most before it ends
MaxChunks == 2
\* readBodyChunk calls per run
MaxPulls == 4
\* readBodyChunk calls suspended in their source read at one time
MaxPending == 2
\* characters of a content-length header value
MaxHeaderLen == 2
\* characters of a synthetic response's string body
MaxTextLen == 2
\* fetch calls of a run in which delivery is followed to its end
MaxFairFetches == 1
\* name/value pairs of a header list a request is built from
MaxHeaders == 2
\* rejected options set together in an options bag
MaxOptions == 2

Undefined == << >>

Some(v) == <<v>>

SeqsUpTo(S, n) == UNION {[1..k -> S] : k \in 0..n}

Range(f) == {f[x] : x \in DOMAIN f}

IsPrefix(s, t) == Len(s) <= Len(t) /\ SubSeq(t, 1, Len(s)) = s

\* a map without key k (Map.delete)
MapDelete(m, k) == [x \in DOMAIN m \ {k} |-> m[x]]

\* a map with key k set to v (Map.set)
MapSet(m, k, v) == [x \in DOMAIN m \cup {k} |-> IF x = k THEN v ELSE m[x]]

\* --------------------------------------------------------------- variables
VARIABLES
    \* class Bodies (the callee's instance)
    nextBodyId,     \* private nextBodyId
    bodies,         \* Map<number, ReadableStream>: body id -> stream reference
    readers,        \* Map<number, ReadableStreamDefaultReader>: body id -> the stream its reader reads
    \* the heap of source streams registered so far, by reference
    streams,
    \* readBodyChunk calls suspended at "await reader.read()", oldest first
    pending,
    \* the channel: messages in flight (bags), callee -> caller
    replies,
    \* history: what each computeBodyId call with a stream returned, in call order
    issued,
    \* history: the values computeBodyId returned for a null body
    nullIssued,
    \* history: per body id, the outcome of each completed readBodyChunk call
    returned,
    \* history: the ids for which a readBodyChunk call started while another was suspended
    overlapped,
    \* packResponse: the response it is called with, and what the call gave
    packIn,
    packOut,
    \* the channel: messages in flight (a bag), caller -> callee
    requests,
    \* the caller's fetch calls: fetch number -> where the call is, and its response
    fetches,
    \* the caller's streams built by makeBodyResolverOverRpc: body id -> stream
    cstreams,
    \* history of a fetch call followed end to end: fetch number -> what the
    \* callee's real fetch gave, and fetch number -> what the caller's promise
    \* settled with
    served,
    outcomes,
    \* class TailController (tail_controller.ts)
    records,        \* Map<TailKey, Record>: tail key -> the state of its record
    \* the setTails calls in the order they were invoked: where each is, the
    \* script ids it still has to go through, and its stopKeys
    setTailsCalls,
    \* the set passed to the last onTailsChanged, if it was called
    tailsChanged

registry == <<nextBodyId, bodies, readers>>

bodiesVars == <<nextBodyId, bodies, readers, streams, pending, replies, issued, nullIssued,
                returned, overlapped>>

packVars == <<packIn, packOut>>

callerVars == <<requests, fetches, cstreams>>

observed == <<served, outcomes>>

\* class TailController
tailVars == <<records, setTailsCalls, tailsChanged>>

vars == <<bodiesVars, packVars, callerVars, observed, tailVars>>

\* every id a call may name; Register never issues MaxBodies + 1
BodyIds == 1..(MaxBodies + MaxFairFetches)

\* a source stream: the chunks its underlying source has produced so far, all
\* read, and whether the source is still open, has closed or has failed
NewStream == [chunks |-> << >>, state |-> "open"]

\* --------------------------------------------------------------- class Bodies

\* computeBodyId(body): body is Undefined (null) or Some(stream reference)
ComputeBodyIdReuse(B, body) ==
    IF body = Undefined
    THEN [nextBodyId |-> B.nextBodyId, bodies |-> B.bodies, readers |-> B.readers,
          bodyId |-> Undefined]
    ELSE LET free == {i \in 1..B.nextBodyId : i \notin DOMAIN B.bodies}
             id == CHOOSE i \in free : \A j \in free : i <= j
         IN [nextBodyId |-> IF id = B.nextBodyId THEN B.nextBodyId + 1 ELSE B.nextBodyId,
             bodies |-> MapSet(B.bodies, id, body[1]),
             readers |-> B.readers,
             bodyId |-> Some(id)]

\* a computeBodyId that opens the reader when it registers the body
ComputeBodyIdOpensReader(B, body) ==
    IF body = Undefined
    THEN [nextBodyId |-> B.nextBodyId, bodies |-> B.bodies, readers |-> B.readers,
          bodyId |-> Undefined]
    ELSE [nextBodyId |-> B.nextBodyId + 1,
          bodies |-> MapSet(B.bodies, B.nextBodyId, body[1]),
          readers |-> MapSet(B.readers, B.nextBodyId, body[1]),
          bodyId |-> Some(B.nextBodyId)]

ComputeBodyId(B, body) ==
    IF body = Undefined
    THEN [nextBodyId |-> B.nextBodyId, bodies |-> B.bodies, readers |-> B.readers,
          bodyId |-> Undefined]
    ELSE [nextBodyId |-> B.nextBodyId + 1,
          bodies |-> MapSet(B.bodies, B.nextBodyId, body[1]),
          readers |-> B.readers,
          bodyId |-> Some(B.nextBodyId)]

TheBodies == [nextBodyId |-> nextBodyId, bodies |-> bodies, readers |-> readers]

\* reader.read() on the stream with reference ref: the outcomes the source can
\* give: its next chunk, done once it has closed, a rejection once it has failed
StreamRead(ref) ==
    LET s == streams[ref]
    IN IF s.state = "closed" THEN {[kind |-> "done", value |-> Undefined]}
       ELSE IF s.state = "errored" THEN {[kind |-> "srcerr", value |-> Undefined]}
       ELSE {[kind |-> "chunk", value |-> Some(<<ref, Len(s.chunks) + 1>>)] :
                x \in IF Len(s.chunks) < MaxChunks THEN {1} ELSE {}}
            \cup {[kind |-> "done", value |-> Undefined],
                  [kind |-> "srcerr", value |-> Undefined]}

\* a read that takes two chunks from the source and hands on the first
StreamAfterReadAhead(s, r) ==
    IF r.kind = "chunk"
    THEN [s EXCEPT !.chunks = @ \o <<r.value[1], <<r.value[1][1], r.value[1][2] + 1>>>>]
    ELSE IF r.kind = "done" THEN [s EXCEPT !.state = "closed"]
    ELSE [s EXCEPT !.state = "errored"]

\* the stream after a read with outcome r
StreamAfter(s, r) ==
    IF r.kind = "chunk" THEN [s EXCEPT !.chunks = Append(@, r.value[1])]
    ELSE IF r.kind = "done" THEN [s EXCEPT !.state = "closed"]
    ELSE [s EXCEPT !.state = "errored"]

\* the outcome logged for body id
Log(bodyId, r) == returned' = [returned EXCEPT ![bodyId] = Append(@, r)]

RECURSIVE SumLen(_, _)
SumLen(f, S) ==
    IF S = {} THEN 0
    ELSE LET x == CHOOSE y \in S : TRUE IN Len(f[x]) + SumLen(f, S \ {x})

\* readBodyChunk calls made so far
Pulls == SumLen(returned, DOMAIN returned) + Len(pending)

\* the 'read-body-chunk' reply the channel sends for a handler outcome
ReadReply(bodyId, r) ==
    [name |-> "read-body-chunk", bodyId |-> bodyId,
     error |-> r.kind \in {"bad", "srcerr"},
     value |-> r.value, done |-> r.kind = "done"]

\* the outcome of a call that finds neither a reader nor a body (line 157):
\* throw new Error(`Bad bodyId: ${bodyId}`)
BadBodyIdSilentDone(bodyId) == [kind |-> "done", value |-> Undefined]

BadBodyId(bodyId) == [kind |-> "bad", value |-> Undefined]

\* readBodyChunk(bodyId), up to its suspension at "await reader.read()"
\* (lines 154-161), as called by the 'read-body-chunk' handler
ReadBodyChunkStart(bodyId) ==
    IF bodyId \in DOMAIN readers
    THEN /\ pending' = Append(pending, [bodyId |-> bodyId, reader |-> readers[bodyId]])
         /\ overlapped' = IF \E i \in DOMAIN pending : pending[i].bodyId = bodyId
                          THEN overlapped \cup {bodyId} ELSE overlapped
         /\ UNCHANGED <<nextBodyId, bodies, readers, streams, replies, returned>>
    ELSE IF bodyId \notin DOMAIN bodies
    THEN \* the call throws: the handler rejects and the channel replies an error
         LET r == BadBodyId(bodyId)
         IN /\ Log(bodyId, r)
            /\ replies' = replies (+) SetToBag({ReadReply(bodyId, r)})
            /\ UNCHANGED <<nextBodyId, bodies, readers, streams, pending, overlapped>>
    ELSE /\ readers' = MapSet(readers, bodyId, bodies[bodyId])
         /\ pending' = Append(pending, [bodyId |-> bodyId, reader |-> bodies[bodyId]])
         /\ overlapped' = IF \E i \in DOMAIN pending : pending[i].bodyId = bodyId
                          THEN overlapped \cup {bodyId} ELSE overlapped
         /\ UNCHANGED <<nextBodyId, bodies, streams, replies, returned>>

RemoveAt(s, i) == SubSeq(s, 1, i - 1) \o SubSeq(s, i + 1, Len(s))

\* the tables after a read result (lines 162-165)
AfterReadKeepEntry(B, bodyId, r) ==
    [nextBodyId |-> B.nextBodyId, bodies |-> B.bodies, readers |-> B.readers]

\* a release that deletes the bodies entry and leaves the cached reader
AfterReadKeepReader(B, bodyId, r) ==
    IF r.kind = "done"
    THEN [nextBodyId |-> B.nextBodyId, bodies |-> MapDelete(B.bodies, bodyId),
          readers |-> B.readers]
    ELSE [nextBodyId |-> B.nextBodyId, bodies |-> B.bodies, readers |-> B.readers]

\* a release on every result that is not an error
AfterReadReleaseEarly(B, bodyId, r) ==
    IF r.kind \in {"done", "chunk"}
    THEN [nextBodyId |-> B.nextBodyId, bodies |-> MapDelete(B.bodies, bodyId),
          readers |-> MapDelete(B.readers, bodyId)]
    ELSE [nextBodyId |-> B.nextBodyId, bodies |-> B.bodies, readers |-> B.readers]

\* a release when the read of the source fails, too
AfterReadReleaseOnError(B, bodyId, r) ==
    IF r.kind \in {"done", "srcerr"}
    THEN [nextBodyId |-> B.nextBodyId, bodies |-> MapDelete(B.bodies, bodyId),
          readers |-> MapDelete(B.readers, bodyId)]
    ELSE [nextBodyId |-> B.nextBodyId, bodies |-> B.bodies, readers |-> B.readers]

AfterRead(B, bodyId, r) ==
    IF r.kind = "done"
    THEN [nextBodyId |-> B.nextBodyId, bodies |-> MapDelete(B.bodies, bodyId),
          readers |-> MapDelete(B.readers, bodyId)]
    ELSE [nextBodyId |-> B.nextBodyId, bodies |-> B.bodies, readers |-> B.readers]

\* readBodyChunk resumed with the result of its read (lines 161-166); the reads
\* of one reader are answered in the order they were issued
ReadBodyChunkResume(i) ==
    /\ i \in DOMAIN pending
    /\ \A j \in 1..(i - 1) : pending[j].reader # pending[i].reader
    /\ \E r \in StreamRead(pending[i].reader) :
       LET c == pending[i]
           B == AfterRead(TheBodies, c.bodyId, r)
       IN /\ streams' = [streams EXCEPT ![c.reader] = StreamAfter(@, r)]
          /\ bodies' = B.bodies
          /\ readers' = B.readers
          /\ Log(c.bodyId, r)
          /\ replies' = replies (+) SetToBag({ReadReply(c.bodyId, r)})
    /\ pending' = RemoveAt(pending, i)
    /\ UNCHANGED <<nextBodyId, issued, nullIssued, overlapped, packVars, observed, tailVars, callerVars>>

\* ------------------------------------------- the registry under any caller

\* computeBodyId called with a fresh stream
Register ==
    /\ Len(issued) < MaxBodies
    /\ LET ref == Len(streams) + 1
           B == ComputeBodyId(TheBodies, Some(ref))
       IN /\ streams' = Append(streams, NewStream)
          /\ nextBodyId' = B.nextBodyId
          /\ bodies' = B.bodies
          /\ readers' = B.readers
          /\ issued' = Append(issued, B.bodyId)
    /\ UNCHANGED <<pending, replies, nullIssued, returned, overlapped, packVars, observed, tailVars, callerVars>>

\* computeBodyId called with null
RegisterNull ==
    /\ LET B == ComputeBodyId(TheBodies, Undefined)
       IN /\ nextBodyId' = B.nextBodyId
          /\ bodies' = B.bodies
          /\ readers' = B.readers
          /\ nullIssued' = nullIssued \cup {B.bodyId}
    /\ UNCHANGED <<streams, pending, replies, issued, returned, overlapped, packVars, observed, tailVars, callerVars>>

\* a 'read-body-chunk' request arrives at the handler, for an id that was
\* issued (live or released) or for the id that is never issued
HandleReadBodyChunk(bodyId) ==
    /\ bodyId < nextBodyId \/ bodyId = MaxBodies + 1
    /\ Pulls < MaxPulls
    /\ Len(pending) < MaxPending
    /\ ReadBodyChunkStart(bodyId)
    /\ UNCHANGED <<issued, nullIssued, packVars, observed, tailVars, callerVars>>

InitBodies ==
    /\ nextBodyId = 1
    /\ bodies = << >>
    /\ readers = << >>
    /\ streams = << >>
    /\ pending = << >>
    /\ replies = EmptyBag
    /\ issued = << >>
    /\ nullIssued = {}
    /\ returned = [i \in BodyIds |-> << >>]
    /\ overlapped = {}
    /\ packIn = Undefined
    /\ packOut = Undefined
    /\ requests = EmptyBag
    /\ fetches = << >>
    /\ cstreams = << >>
    /\ served = << >>
    /\ outcomes = << >>
    /\ records = << >>
    /\ setTailsCalls = << >>
    /\ tailsChanged = Undefined

NextBodies ==
    \/ Register
    \/ RegisterNull
    \/ \E bodyId \in BodyIds : HandleReadBodyChunk(bodyId)
    \/ \E i \in 1..MaxPending : ReadBodyChunkResume(i)

SpecBodies == InitBodies /\ [][NextBodies]_vars

\* ------------------------------------------------------------ packResponse

\* The inlining threshold, Constants.MAX_CONTENT_LENGTH_TO_PACK_OVER_RPC. Its
\* declaration (constants.ts) is not among the files; one byte stands for it,
\* so that lengths below, at and above it are all within the bounds.
MAX_CONTENT_LENGTH_TO_PACK_OVER_RPC == 1

\* A header value is a sequence of characters. Headers strips leading and
\* trailing whitespace from a value, so a value holds none at its ends, and no
\* value of the model holds an "x": parseInt skips no whitespace and its radix
\* is 10.
HeaderChars == {"0", "1", "2", "-", "a"}

Digits == {"0", "1", "2", "3", "4", "5", "6", "7", "8", "9"}

DigitVal(c) ==
    CASE c = "0" -> 0 [] c = "1" -> 1 [] c = "2" -> 2 [] c = "3" -> 3 [] c = "4" -> 4
      [] c = "5" -> 5 [] c = "6" -> 6 [] c = "7" -> 7 [] c = "8" -> 8 [] c = "9" -> 9

\* the longest prefix of s made of digits
RECURSIVE DigitPrefix(_)
DigitPrefix(s) ==
    IF s = << >> \/ Head(s) \notin Digits THEN << >>
    ELSE <<Head(s)>> \o DigitPrefix(Tail(s))

\* the value of a sequence of digits
RECURSIVE DigitsVal(_)
DigitsVal(d) ==
    IF d = << >> THEN 0
    ELSE 10 * DigitsVal(SubSeq(d, 1, Len(d) - 1)) + DigitVal(d[Len(d)])

\* parseInt(s): an optional sign, then the longest run of digits; what follows
\* the digits is ignored; NaN when there is no digit
ParseInt(s) ==
    LET neg == s # << >> /\ Head(s) = "-"
        rest == IF s # << >> /\ Head(s) \in {"-", "+"} THEN Tail(s) ELSE s
        d == DigitPrefix(rest)
    IN IF d = << >> THEN [nan |-> TRUE, val |-> 0]
       ELSE [nan |-> FALSE, val |-> IF neg THEN 0 - DigitsVal(d) ELSE DigitsVal(d)]

\* response.headers.get('content-length') || '-1': get gives null (Undefined)
\* for an absent header, and both null and the empty string are falsy
ContentLengthOrDefault(h) ==
    IF h = Undefined \/ h[1] = << >> THEN <<"-", "1">> ELSE h[1]

\* what a DenoflareResponse's bodyInit may be
InitKinds == {"string", "stream", "undefined", "null", "bytes"}

TextChars == {"x", "y"}

\* The responses packResponse is called with. synthetic: DenoflareResponse.is;
\* initKind, text: its bodyInit; contentLength: the content-length header, if
\* any; hasBody: response.body is a stream, not null.
SyntheticResponses ==
    [synthetic : {TRUE}, initKind : {"string"}, text : SeqsUpTo(TextChars, MaxTextLen),
     contentLength : {Undefined} \cup {Some(h) : h \in SeqsUpTo(HeaderChars, MaxHeaderLen)},
     hasBody : {FALSE}]
    \cup
    [synthetic : {TRUE}, initKind : InitKinds \ {"string"}, text : {<< >>},
     contentLength : {Undefined, Some(<<"0">>), Some(<<"2">>)},
     hasBody : {FALSE}]

NormalResponses ==
    [synthetic : {FALSE}, initKind : {"undefined"}, text : {<< >>},
     contentLength : {Undefined} \cup {Some(h) : h \in SeqsUpTo(HeaderChars, MaxHeaderLen)},
     hasBody : BOOLEAN]

Responses == SyntheticResponses \cup NormalResponses

\* what "await response.arrayBuffer()" may give: the bytes of the body (none
\* for a null body), or a rejection
ArrayBuffers(response) ==
    {[ok |-> FALSE, bytes |-> << >>]}
    \cup {[ok |-> TRUE, bytes |-> [k \in 1..n |-> <<0, k>>]] :
            n \in IF response.hasBody THEN 0..MaxChunks ELSE {0}}

NoPacked == [bodyId |-> Undefined, bodyText |-> Undefined, bodyBytes |-> Undefined]

\* the PackedResponse of a string bodyInit (line 53)
PackedTextAsBytes(text) ==
    [bodyId |-> Undefined, bodyText |-> Undefined, bodyBytes |-> Some(text)]

PackedText(text) ==
    [bodyId |-> Undefined, bodyText |-> Some(text), bodyBytes |-> Undefined]

\* the PackedResponse of a body sent by reference (lines 56 and 68)
PackedRefWithEmptyBytes(bodyId) ==
    [bodyId |-> bodyId, bodyText |-> Undefined, bodyBytes |-> Some(<< >>)]

PackedRef(bodyId) ==
    [bodyId |-> bodyId, bodyText |-> Undefined, bodyBytes |-> Undefined]

\* the PackedResponse of a buffered body (line 65)
PackedBytes(bytes) ==
    [bodyId |-> Undefined, bodyText |-> Undefined, bodyBytes |-> Some(bytes)]

\* the test of line 62 on the parsed content-length
Inlinable(contentLength) ==
    /\ ~contentLength.nan
    /\ contentLength.val > -1
    /\ contentLength.val <= MAX_CONTENT_LENGTH_TO_PACK_OVER_RPC

\* a packResponse that registers the body before it fails
ThrownAfterRegistering(B) ==
    [ok |-> FALSE, packed |-> NoPacked,
     B |-> [nextBodyId |-> B.nextBodyId + 1, bodies |-> MapSet(B.bodies, B.nextBodyId, 0),
            readers |-> B.readers]]

\* packResponse throws (line 58) or the awaited arrayBuffer() rejects (line
\* 63): no PackedResponse, and the registry as it was
Thrown(B) == [ok |-> FALSE, packed |-> NoPacked, B |-> B]

\* a test of the bodyInit that takes a byte buffer for a string
BodyInitIsStringOrBytes(response) == response.initKind \in {"string", "bytes"}

\* typeof response.bodyInit === 'string' (line 51)
BodyInitIsString(response) == response.initKind = "string"

\* packResponse(response, bodies): B is the registry, ref the reference of the
\* response's stream (bodyInit or body), buf what arrayBuffer() gives if awaited
packResponse(response, B, ref, buf) ==
    IF response.synthetic
    THEN IF BodyInitIsString(response)
         THEN [ok |-> TRUE, packed |-> PackedText(response.text), B |-> B]
         ELSE IF response.initKind = "stream"
         THEN LET r == ComputeBodyId(B, Some(ref))
              IN [ok |-> TRUE, packed |-> PackedRef(r.bodyId),
                  B |-> [nextBodyId |-> r.nextBodyId, bodies |-> r.bodies,
                         readers |-> r.readers]]
         ELSE Thrown(B)
    ELSE LET contentLength == ParseInt(ContentLengthOrDefault(response.contentLength))
         IN IF Inlinable(contentLength)
            THEN IF buf.ok
                 THEN [ok |-> TRUE, packed |-> PackedBytes(buf.bytes), B |-> B]
                 ELSE Thrown(B)
            ELSE LET r == ComputeBodyId(B, IF response.hasBody THEN Some(ref) ELSE Undefined)
                 IN [ok |-> TRUE, packed |-> PackedRef(r.bodyId),
                     B |-> [nextBodyId |-> r.nextBodyId, bodies |-> r.bodies,
                            readers |-> r.readers]]

\* one call of packResponse on the response drawn at the start, on a registry
\* in which any number of bodies were registered before
PackResponse ==
    /\ packIn # Undefined
    /\ packOut = Undefined
    /\ \E buf \in ArrayBuffers(packIn[1]) :
       LET out == packResponse(packIn[1], TheBodies, Len(streams) + 1, buf)
       IN /\ packOut' = Some([ok |-> out.ok, packed |-> out.packed, pre |-> TheBodies])
          /\ nextBodyId' = out.B.nextBodyId
          /\ bodies' = out.B.bodies
          /\ readers' = out.B.readers
          /\ streams' = IF out.B.nextBodyId # nextBodyId
                        THEN Append(streams, NewStream) ELSE streams
    /\ UNCHANGED <<pending, replies, issued, nullIssued, returned, overlapped, packIn,
                   callerVars, observed, tailVars>>

InitPack ==
    /\ nextBodyId = 1
    /\ bodies = << >>
    /\ readers = << >>
    /\ streams = << >>
    /\ pending = << >>
    /\ replies = EmptyBag
    /\ issued = << >>
    /\ nullIssued = {}
    /\ returned = [i \in BodyIds |-> << >>]
    /\ overlapped = {}
    /\ packIn \in {Some(r) : r \in Responses}
    /\ packOut = Undefined
    /\ requests = EmptyBag
    /\ fetches = << >>
    /\ cstreams = << >>
    /\ served = << >>
    /\ outcomes = << >>
    /\ records = << >>
    /\ setTailsCalls = << >>
    /\ tailsChanged = Undefined

NextPack ==
    \/ packOut = Undefined /\ Register
    \/ PackResponse

SpecPack == InitPack /\ [][NextPack]_vars

\* ------------------------------------- the caller's stream of a referenced body
\* new ReadableStream({ start, pull, cancel }) with the default queuing
\* strategy: the stream's default controller, as the Streams standard defines it.

\* the default strategy's high water mark: no strategy is passed at line 19
HighWaterMark == 1

\* the stream as constructed. enqueued, yielded, pulls, reads and sawDone are
\* history: the chunks enqueued so far, those handed to the consumer, the
\* 'read-body-chunk' requests sent, the consumer's read() calls, and whether a
\* read() has reported done. consumer tells whether the consumer still reads,
\* has stopped reading or has cancelled the stream, and pullsAtStop the
\* requests that had been sent when it stopped or cancelled.
NewCallerStream ==
    [started |-> FALSE, pulling |-> FALSE, pullAgain |-> FALSE,
     closeRequested |-> FALSE, state |-> "readable", queue |-> << >>, readRequests |-> 0,
     enqueued |-> << >>, yielded |-> << >>, pulls |-> 0, reads |-> 0, sawDone |-> FALSE,
     consumer |-> "reading", pullsAtStop |-> 0]

\* ReadableStreamDefaultControllerShouldCallPull
ShouldCallPull(cs) ==
    /\ cs.state = "readable"
    /\ ~cs.closeRequested
    /\ cs.started
    /\ (cs.readRequests > 0 \/ HighWaterMark - Len(cs.queue) > 0)

\* a pull that sends the request and returns without awaiting the reply
PullReturnsBeforeReply == FALSE

\* line 25: pull awaits the reply, so the promise it returned is pending, and
\* the controller's pulling flag set, while the request is in flight
PullAwaitsReply == TRUE

\* ReadableStreamDefaultControllerCallPullIfNeeded: the stream after it, and
\* whether pull was called (pull sends one 'read-body-chunk' request, line 25)
CallPullIfNeeded(cs) ==
    IF ~ShouldCallPull(cs) THEN [cs |-> cs, send |-> FALSE]
    ELSE IF cs.pulling THEN [cs |-> [cs EXCEPT !.pullAgain = TRUE], send |-> FALSE]
    ELSE [cs |-> [cs EXCEPT !.pulling = PullAwaitsReply, !.pulls = @ + 1], send |-> TRUE]

ReadRequest(bodyId) == [name |-> "read-body-chunk", bodyId |-> bodyId]

\* the requests in flight after CallPullIfNeeded on the stream of bodyId
SendIf(bodyId, r) ==
    requests' = IF r.send THEN requests (+) SetToBag({ReadRequest(bodyId)}) ELSE requests

\* the start promise settles: the controller is started and pulls if needed
StreamStart(bodyId) ==
    /\ bodyId \in DOMAIN cstreams
    /\ ~cstreams[bodyId].started
    /\ LET r == CallPullIfNeeded([cstreams[bodyId] EXCEPT !.started = TRUE])
       IN /\ cstreams' = [cstreams EXCEPT ![bodyId] = r.cs]
          /\ SendIf(bodyId, r)
    /\ UNCHANGED <<bodiesVars, packVars, observed, tailVars, fetches>>

\* ReadableStreamClose: the pending read requests are resolved with done
CloseStream(cs) ==
    [cs EXCEPT !.state = "closed", !.readRequests = 0,
               !.sawDone = @ \/ cs.readRequests > 0]

\* the consumer calls read() on the stream's reader (the controller's pull
\* steps). The consumer awaits each read() before the next, as Response.text(),
\* arrayBuffer() and for await do, so it has at most one read request pending.
ConsumerRead(bodyId) ==
    /\ bodyId \in DOMAIN cstreams
    /\ cstreams[bodyId].consumer = "reading"
    /\ LET cs == [cstreams[bodyId] EXCEPT !.reads = @ + 1]
       IN IF cs.state = "closed"
          THEN /\ ~cs.sawDone
               /\ cstreams' = [cstreams EXCEPT ![bodyId] = [cs EXCEPT !.sawDone = TRUE]]
               /\ UNCHANGED requests
          ELSE /\ cs.state = "readable"
               /\ IF cs.queue # << >>
                  THEN LET took == [cs EXCEPT !.queue = Tail(@),
                                              !.yielded = Append(@, Head(cs.queue))]
                       IN IF took.closeRequested /\ took.queue = << >>
                          THEN /\ cstreams' = [cstreams EXCEPT ![bodyId] = CloseStream(took)]
                               /\ UNCHANGED requests
                          ELSE LET r == CallPullIfNeeded(took)
                               IN /\ cstreams' = [cstreams EXCEPT ![bodyId] = r.cs]
                                  /\ SendIf(bodyId, r)
                  ELSE /\ cs.readRequests = 0
                       /\ LET r == CallPullIfNeeded([cs EXCEPT !.readRequests = @ + 1])
                          IN /\ cstreams' = [cstreams EXCEPT ![bodyId] = r.cs]
                             /\ SendIf(bodyId, r)
    /\ UNCHANGED <<bodiesVars, packVars, observed, tailVars, fetches>>

\* a pull that enqueues the reply's value twice
PullEnqueuesTwice(value) == IF value # Undefined THEN <<value[1], value[1]>> ELSE << >>

\* the chunks pull enqueues for a reply's value (line 28)
PullEnqueues(value) == IF value # Undefined THEN <<value[1]>> ELSE << >>

\* controller.enqueue(chunk): a pending read request takes the chunk, else the
\* queue does; then the controller pulls if needed
Enqueue(cs, chunk) ==
    LET put == IF cs.readRequests > 0
               THEN [cs EXCEPT !.readRequests = @ - 1, !.yielded = Append(@, chunk),
                               !.enqueued = Append(@, chunk)]
               ELSE [cs EXCEPT !.queue = Append(@, chunk), !.enqueued = Append(@, chunk)]
    IN CallPullIfNeeded(put).cs

RECURSIVE EnqueueAll(_, _)
EnqueueAll(cs, chunks) ==
    IF chunks = << >> THEN cs ELSE EnqueueAll(Enqueue(cs, Head(chunks)), Tail(chunks))

\* a pull that does not close the stream on done
CloseIgnored(cs) == cs

\* controller.close() (line 29)
Close(cs) ==
    LET req == [cs EXCEPT !.closeRequested = TRUE]
    IN IF req.queue = << >> THEN CloseStream(req) ELSE req

\* ReadableStreamDefaultControllerError: the pull promise was rejected
ErrorStream(cs) ==
    [cs EXCEPT !.state = "errored", !.queue = << >>, !.readRequests = 0]

\* the reply to the stream's 'read-body-chunk' request arrives: pull goes on
\* after its await (lines 25-29), and the promise it returned settles, so the
\* controller pulls again if it was asked to meanwhile
PullReply(m) ==
    /\ BagIn(m, replies)
    /\ m.name = "read-body-chunk"
    /\ m.bodyId \in DOMAIN cstreams
    /\ replies' = replies (-) SetToBag({m})
    /\ LET cs == cstreams[m.bodyId]
           \* on a stream that was cancelled, enqueue and close throw, and the
           \* rejection of the pull promise changes nothing
           after == IF cs.state # "readable" THEN cs
                    ELSE IF m.error THEN ErrorStream(cs)
                    ELSE LET e == EnqueueAll(cs, PullEnqueues(m.value))
                         IN IF m.done THEN Close(e) ELSE e
           settled == [after EXCEPT !.pulling = FALSE, !.pullAgain = FALSE]
           r == IF after.pullAgain THEN CallPullIfNeeded(settled)
                ELSE [cs |-> settled, send |-> FALSE]
       IN /\ cstreams' = [cstreams EXCEPT ![m.bodyId] = r.cs]
          /\ SendIf(m.bodyId, r)
    /\ UNCHANGED <<nextBodyId, bodies, readers, streams, pending, issued, nullIssued,
                   returned, overlapped, packVars, observed, tailVars, fetches>>

\* a cancel that asks the callee for one more chunk
CancelSendsRead(bodyId) == SetToBag({ReadRequest(bodyId)})

\* the messages cancel(reason) sends (lines 31-33): it logs, and sends none
CancelMessages(bodyId) == EmptyBag

\* the consumer cancels the stream before the stream has received the terminal
\* chunk: the stream is closed, which resolves a pending read with done, its
\* queue is emptied, and cancel(reason) of line 31 is called
ConsumerCancel(bodyId) ==
    /\ bodyId \in DOMAIN cstreams
    /\ cstreams[bodyId].consumer = "reading"
    /\ cstreams[bodyId].state = "readable"
    /\ ~cstreams[bodyId].closeRequested
    /\ cstreams' = [cstreams EXCEPT ![bodyId] =
                       [CloseStream(@) EXCEPT
                           !.queue = << >>, !.consumer = "cancelled",
                           !.pullsAtStop = cstreams[bodyId].pulls,
                           !.pulls = @ + BagCardinality(CancelMessages(bodyId))]]
    /\ requests' = requests (+) CancelMessages(bodyId)
    /\ UNCHANGED <<bodiesVars, packVars, observed, tailVars, fetches>>

\* the consumer stops reading before the stream has received the terminal
\* chunk, and leaves the stream as it is
ConsumerStop(bodyId) ==
    /\ bodyId \in DOMAIN cstreams
    /\ cstreams[bodyId].consumer = "reading"
    /\ cstreams[bodyId].state = "readable"
    /\ ~cstreams[bodyId].closeRequested
    /\ cstreams[bodyId].readRequests = 0
    /\ cstreams' = [cstreams EXCEPT ![bodyId].consumer = "stopped",
                                    ![bodyId].pullsAtStop = cstreams[bodyId].pulls]
    /\ UNCHANGED <<bodiesVars, packVars, observed, tailVars, requests, fetches>>

\* ------------------------------------------------------------ the fetch bridge

Fetches == 1..MaxBodies

\* the function makeFetchOverRpc returns, called with a URL string: the request
\* is packed and sent as a 'fetch' call (lines 12-14)
FetchCall(f) ==
    /\ f = Len(fetches) + 1
    /\ f \in Fetches
    /\ fetches' = Append(fetches, [state |-> "sent", body |-> "none"])
    /\ requests' = requests (+) SetToBag({[name |-> "fetch", fetchId |-> f]})
    /\ UNCHANGED <<bodiesVars, packVars, observed, tailVars, cstreams>>

\* the responses the callee's real fetch gives in the composed system: a body
\* sent by reference, a body within the threshold, no body, a string, and a
\* synthetic response without a body initializer
CalleeResponses ==
    {r \in Responses :
        /\ r.text \in {<< >>, <<"x">>}
        /\ r.initKind \in {"string", "undefined"}
        /\ r.contentLength \in {Undefined, Some(<<"1">>)}
        /\ r.synthetic => r.contentLength = Undefined
        /\ ~r.synthetic /\ ~r.hasBody => r.contentLength = Undefined}

\* The status codes of the responses of the real fetch: one with a body, and
\* one of the null body statuses (101, 103, 204, 205, 304), for which the
\* Response constructor accepts no body.
Statuses == {200, 205}

NullBodyStatuses == {205}

\* What the real fetch gives in a call followed end to end: the responses of
\* the composed system with the status 200, and a 205 response, which has no
\* body and declares the content-length 0.
FetchedResponses ==
    {[response |-> r, status |-> 200] : r \in CalleeResponses}
    \cup {[response |-> [synthetic |-> FALSE, initKind |-> "undefined", text |-> << >>,
                         contentLength |-> Some(<<"0">>), hasBody |-> FALSE],
            status |-> st] : st \in Statuses}

\* what the error packResponse throws on a response names: the bodyInit of
\* line 58, or the rejection of arrayBuffer() (line 63)
ThrownError(response) == IF response.synthetic THEN "bodyInit" ELSE "arrayBuffer"

\* the callee's 'fetch' handler serves call f: the real fetch gave response
\* with this status, packResponse packs it (the status as it is, line 48), and
\* the reply is the PackedResponse, or the error if packResponse throws
ServeFetch(f, response, status, buf) ==
    /\ requests' = requests (-) SetToBag({[name |-> "fetch", fetchId |-> f]})
    /\ LET out == packResponse(response, TheBodies, Len(streams) + 1, buf)
       IN /\ nextBodyId' = out.B.nextBodyId
          /\ bodies' = out.B.bodies
          /\ readers' = out.B.readers
          /\ streams' = IF out.B.nextBodyId # nextBodyId
                        THEN Append(streams, NewStream) ELSE streams
          /\ replies' = replies (+) SetToBag({
                 [name |-> "fetch", fetchId |-> f, error |-> ~out.ok,
                  reason |-> IF out.ok THEN "" ELSE ThrownError(response),
                  status |-> IF out.ok THEN status ELSE 0, packed |-> out.packed]})
    /\ UNCHANGED <<pending, issued, nullIssued, returned, overlapped, fetches, cstreams>>

\* the callee's 'fetch' handler in the composed system, where every response
\* has the status 200
OnFetchRequest(f) ==
    /\ BagIn([name |-> "fetch", fetchId |-> f], requests)
    /\ \E response \in CalleeResponses : \E buf \in ArrayBuffers(response) :
           ServeFetch(f, response, 200, buf)
    /\ UNCHANGED <<packVars, observed, tailVars>>

\* the same, any status, with what the real fetch gave kept
OnFetchRequestObserved(f) ==
    /\ BagIn([name |-> "fetch", fetchId |-> f], requests)
    /\ \E fetched \in FetchedResponses : \E buf \in ArrayBuffers(fetched.response) :
           /\ ServeFetch(f, fetched.response, fetched.status, buf)
           /\ served' = MapSet(served, f, [response |-> fetched.response,
                                           status |-> fetched.status, buf |-> buf])
    /\ UNCHANGED <<packVars, outcomes, tailVars>>

\* an unpackResponse that looks at bodyBytes before bodyText
unpackResponseBytesFirst(packed) ==
    IF packed.bodyBytes # Undefined
    THEN [kind |-> "bytes", value |-> packed.bodyBytes, resolved |-> << >>]
    ELSE IF packed.bodyText # Undefined
    THEN [kind |-> "text", value |-> packed.bodyText, resolved |-> << >>]
    ELSE IF packed.bodyId = Undefined
    THEN [kind |-> "none", value |-> Undefined, resolved |-> << >>]
    ELSE [kind |-> "stream", value |-> packed.bodyId, resolved |-> <<packed.bodyId[1]>>]

\* unpackResponse(packed, bodyResolver): the body the Response gets (lines
\* 76-79), and resolved, the ids bodyResolver was called with
unpackResponse(packed) ==
    IF packed.bodyText # Undefined
    THEN [kind |-> "text", value |-> packed.bodyText, resolved |-> << >>]
    ELSE IF packed.bodyBytes # Undefined
    THEN [kind |-> "bytes", value |-> packed.bodyBytes, resolved |-> << >>]
    ELSE IF packed.bodyId = Undefined
    THEN [kind |-> "none", value |-> Undefined, resolved |-> << >>]
    ELSE [kind |-> "stream", value |-> packed.bodyId, resolved |-> <<packed.bodyId[1]>>]

\* new _Response(body, { status, headers }) of line 80: the constructor throws
\* a TypeError for a body that is not null, an empty buffer included, with a
\* null body status
NewResponse(status, body) ==
    IF body.kind # "none" /\ status \in NullBodyStatuses
    THEN [ok |-> FALSE, error |-> "TypeError", status |-> 0, body |-> "none",
          value |-> Undefined]
    ELSE [ok |-> TRUE, error |-> "", status |-> status, body |-> body.kind,
          value |-> body.value]

\* what channel.sendRequest('fetch', ...) of line 14 settles with on the reply
\* m: the error of the callee's handler, or what the reply decoder, which is
\* unpackResponse, gives or throws
SendRequestResult(m) ==
    IF m.error
    THEN [ok |-> FALSE, error |-> m.reason, status |-> 0, body |-> "none",
          value |-> Undefined]
    ELSE NewResponse(m.status, unpackResponse(m.packed))

\* a bridge that swallows the error of the 'fetch' call
RejectionSwallowed(error) ==
    [state |-> "resolved", status |-> 0, body |-> "none", value |-> Undefined, error |-> ""]

\* the 'fetch' call fails: the await of line 14 throws the channel's error, so
\* the promise of the bridge rejects with it
Rejection(error) ==
    [state |-> "rejected", status |-> 0, body |-> "none", value |-> Undefined,
     error |-> error]

\* what the promise of the bridge settles with on the reply m (line 14): the
\* Response unpackResponse built, status and body, or the error
FetchOutcome(m) ==
    LET result == SendRequestResult(m)
    IN IF ~result.ok THEN Rejection(result.error)
       ELSE [state |-> "resolved", status |-> result.status, body |-> result.body,
             value |-> result.value, error |-> ""]

\* the reply to a 'fetch' call arrives: the response is unpacked with
\* makeBodyResolverOverRpc(channel), which builds the stream of a referenced body
TakeFetchReply(m) ==
    /\ BagIn(m, replies)
    /\ m.name = "fetch"
    /\ replies' = replies (-) SetToBag({m})
    /\ LET outcome == FetchOutcome(m)
       IN fetches' = [fetches EXCEPT ![m.fetchId] =
                         [state |-> outcome.state, body |-> outcome.body]]
    /\ cstreams' = IF m.error THEN cstreams
                   ELSE LET resolved == unpackResponse(m.packed).resolved
                        IN IF resolved # << >>
                           THEN MapSet(cstreams, resolved[1], NewCallerStream)
                           ELSE cstreams
    /\ UNCHANGED <<nextBodyId, bodies, readers, streams, pending, issued, nullIssued,
                   returned, overlapped, requests>>

FetchReply(m) == TakeFetchReply(m) /\ UNCHANGED <<packVars, observed, tailVars>>

\* the same, with what the promise settled with kept
FetchReplyObserved(m) ==
    /\ TakeFetchReply(m)
    /\ outcomes' = MapSet(outcomes, m.fetchId, FetchOutcome(m))
    /\ UNCHANGED <<packVars, served, tailVars>>

\* the 'read-body-chunk' handler receives a request the caller sent (lines 38-42)
OnReadBodyChunkRequest(bodyId) ==
    /\ BagIn(ReadRequest(bodyId), requests)
    /\ requests' = requests (-) SetToBag({ReadRequest(bodyId)})
    /\ ReadBodyChunkStart(bodyId)
    /\ UNCHANGED <<issued, nullIssued, packVars, observed, tailVars, fetches, cstreams>>

Init ==
    /\ nextBodyId = 1
    /\ bodies = << >>
    /\ readers = << >>
    /\ streams = << >>
    /\ pending = << >>
    /\ replies = EmptyBag
    /\ issued = << >>
    /\ nullIssued = {}
    /\ returned = [i \in BodyIds |-> << >>]
    /\ overlapped = {}
    /\ packIn = Undefined
    /\ packOut = Undefined
    /\ requests = EmptyBag
    /\ fetches = << >>
    /\ cstreams = << >>
    /\ served = << >>
    /\ outcomes = << >>
    /\ records = << >>
    /\ setTailsCalls = << >>
    /\ tailsChanged = Undefined

Next ==
    \/ \E f \in Fetches : FetchCall(f)
    \/ \E f \in Fetches : OnFetchRequest(f)
    \/ \E m \in BagToSet(replies) : FetchReply(m)
    \/ \E bodyId \in BodyIds : StreamStart(bodyId)
    \/ \E bodyId \in BodyIds : ConsumerRead(bodyId)
    \/ \E bodyId \in BodyIds : OnReadBodyChunkRequest(bodyId)
    \/ \E i \in 1..Len(pending) : ReadBodyChunkResume(i)
    \/ \E m \in BagToSet(replies) : PullReply(m)

Spec == Init /\ [][Next]_vars

\* The channel delivers every message it carries, the event loop runs every
\* continuation that is ready, and the consumer of a stream keeps reading.
\* Nothing makes the caller call fetch.
Fairness ==
    /\ \A f \in Fetches : WF_vars(OnFetchRequest(f))
    /\ WF_vars(\E m \in BagToSet(replies) : FetchReply(m))
    /\ WF_vars(\E m \in BagToSet(replies) : PullReply(m))
    /\ WF_vars(\E i \in 1..Len(pending) : ReadBodyChunkResume(i))
    /\ \A bodyId \in BodyIds :
        /\ WF_vars(StreamStart(bodyId))
        /\ WF_vars(ConsumerRead(bodyId))
        /\ WF_vars(OnReadBodyChunkRequest(bodyId))

\* The composed system with at most MaxFairFetches fetch calls, on a callee
\* whose registry other users register bodies in.
NextFair ==
    \/ Len(fetches) < MaxFairFetches /\ \E f \in Fetches : FetchCall(f)
    \/ Register
    \/ \E f \in Fetches : OnFetchRequest(f)
    \/ \E m \in BagToSet(replies) : FetchReply(m)
    \/ \E bodyId \in BodyIds : StreamStart(bodyId)
    \/ \E bodyId \in BodyIds : ConsumerRead(bodyId)
    \/ \E bodyId \in BodyIds : OnReadBodyChunkRequest(bodyId)
    \/ \E i \in 1..Len(pending) : ReadBodyChunkResume(i)
    \/ \E m \in BagToSet(replies) : PullReply(m)

FairSpec == Init /\ [][NextFair]_vars /\ Fairness

\* At most MaxFairFetches fetch calls followed end to end: what the real fetch
\* gave and what the caller's promise settled with are kept.
NextFetch ==
    \/ Len(fetches) < MaxFairFetches /\ \E f \in Fetches : FetchCall(f)
    \/ \E f \in Fetches : OnFetchRequestObserved(f)
    \/ \E m \in BagToSet(replies) : FetchReplyObserved(m)
    \/ \E bodyId \in BodyIds : StreamStart(bodyId)
    \/ \E bodyId \in BodyIds : ConsumerRead(bodyId)
    \/ \E bodyId \in BodyIds : OnReadBodyChunkRequest(bodyId)
    \/ \E i \in 1..Len(pending) : ReadBodyChunkResume(i)
    \/ \E m \in BagToSet(replies) : PullReply(m)

SpecFetch == Init /\ [][NextFetch]_vars

\* At most MaxFairFetches fetch calls, with consumers that may stop reading or
\* cancel the stream of a referenced body.
NextCancel ==
    \/ Len(fetches) < MaxFairFetches /\ \E f \in Fetches : FetchCall(f)
    \/ \E f \in Fetches : OnFetchRequest(f)
    \/ \E m \in BagToSet(replies) : FetchReply(m)
    \/ \E bodyId \in BodyIds : StreamStart(bodyId)
    \/ \E bodyId \in BodyIds : ConsumerRead(bodyId)
    \/ \E bodyId \in BodyIds : ConsumerCancel(bodyId)
    \/ \E bodyId \in BodyIds : ConsumerStop(bodyId)
    \/ \E bodyId \in BodyIds : OnReadBodyChunkRequest(bodyId)
    \/ \E i \in 1..Len(pending) : ReadBodyChunkResume(i)
    \/ \E m \in BagToSet(replies) : PullReply(m)

SpecCancel == Init /\ [][NextCancel]_vars

\* ----------------------------------------------------- unpackResponse alone

\* nothing has been registered, sent or built
NothingYet ==
    /\ nextBodyId = 1
    /\ bodies = << >>
    /\ readers = << >>
    /\ streams = << >>
    /\ pending = << >>
    /\ replies = EmptyBag
    /\ issued = << >>
    /\ nullIssued = {}
    /\ returned = [i \in BodyIds |-> << >>]
    /\ overlapped = {}
    /\ requests = EmptyBag
    /\ fetches = << >>
    /\ cstreams = << >>
    /\ served = << >>
    /\ outcomes = << >>
    /\ records = << >>
    /\ setTailsCalls = << >>
    /\ tailsChanged = Undefined

\* the PackedResponse records unpackResponse may be given: any of the three
\* body fields set or not, in every combination
PackedResponses ==
    [bodyId : {Undefined} \cup {Some(i) : i \in 1..MaxBodies},
     bodyText : {Undefined} \cup {Some(t) : t \in SeqsUpTo(TextChars, MaxTextLen)},
     bodyBytes : {Undefined} \cup {Some([k \in 1..n |-> <<0, k>>]) : n \in 0..MaxChunks}]

\* one call of unpackResponse on the record drawn at the start
UnpackResponse ==
    /\ packIn # Undefined
    /\ packOut = Undefined
    /\ packOut' = Some(unpackResponse(packIn[1]))
    /\ UNCHANGED <<bodiesVars, packIn, callerVars, observed, tailVars>>

InitUnpack ==
    /\ NothingYet
    /\ packIn \in {Some(p) : p \in PackedResponses}
    /\ packOut = Undefined

NextUnpack == UnpackResponse

SpecUnpack == InitUnpack /\ [][NextUnpack]_vars

\* ------------------------------------------------- packRequest, unpackRequest

\* Header names and values. A value is the sequence of the values joined with
\* ", " to make it: Headers joins the values of one name so.
HeaderPairs == {<<"b", <<"1">>>>, <<"A", <<"1">>>>, <<"a", <<"2">>>>}

HeaderLists == SeqsUpTo(HeaderPairs, MaxHeaders)

\* a header name in lower case, as Headers keeps it
LowerCase(name) == IF name = "A" THEN "a" ELSE name

\* the lower-case names of the model, in the order Headers enumerates them
SortedNames == <<"a", "b">>

\* the values a header list gives a name, joined in the list's order
RECURSIVE ValuesOf(_, _)
ValuesOf(list, name) ==
    IF list = << >> THEN << >>
    ELSE (IF LowerCase(Head(list)[1]) = name THEN Head(list)[2] ELSE << >>)
         \o ValuesOf(Tail(list), name)

\* [...new Headers(list).entries()]: one pair per lower-case name, sorted by
\* name, the values of a name joined
RECURSIVE EntriesOf(_, _)
EntriesOf(list, names) ==
    IF names = << >> THEN << >>
    ELSE (IF \E i \in DOMAIN list : LowerCase(list[i][1]) = Head(names)
          THEN <<<<Head(names), ValuesOf(list, Head(names))>>>> ELSE << >>)
         \o EntriesOf(list, Tail(names))

HeadersEntries(list) == EntriesOf(list, SortedNames)

\* new Request(url, { method }) puts the standard methods in upper case
NormalizeMethod(method) == IF method = "get" THEN "GET" ELSE method

\* new Request(url) parses the URL and keeps it serialized
ParseUrl(url) == IF url = "http://a" THEN "http://a/" ELSE url

\* the options packRequest rejects when set, in the order of lines 98-108
RejectedOptionsButWindow ==
    <<"body", "cache", "credentials", "integrity", "keepalive", "mode", "redirect",
      "referrer", "referrerPolicy", "signal">>

RejectedOptions ==
    <<"body", "cache", "credentials", "integrity", "keepalive", "mode", "redirect",
      "referrer", "referrerPolicy", "signal", "window">>

\* the options of RequestInit that are set or not, besides method, headers and
\* redirect
OtherOptions ==
    {"body", "cache", "credentials", "integrity", "keepalive", "mode", "referrer",
     "referrerPolicy", "signal", "window"}

\* An options bag: method, headers and redirect if set, and the other options
\* that are set. Two families: every method and header list with no rejected
\* option, and every choice of rejected options with few methods and headers.
OptionBags ==
    [method : {Undefined, Some("GET"), Some("get"), Some("POST")},
     headers : {Undefined} \cup {Some(h) : h \in HeaderLists},
     redirect : {Undefined, Some("follow")},
     others : {{}}]
    \cup
    [method : {Undefined, Some("POST")},
     headers : {Undefined, Some(<< >>)},
     redirect : {Undefined, Some("follow"), Some("manual")},
     others : {o \in SUBSET OtherOptions : Cardinality(o) <= MaxOptions}]

NoHeaders == << >>

\* What packRequest is called with. info is a Request (kind "request": its
\* method and URL as the Request holds them, the header list it was built from,
\* and whether its body is a stream or null), a URL string (kind "string"), an
\* object that is no Request and has no headers (kind "object"), or a value
\* that is neither an object nor a string (kind "other").
RequestInputs ==
    [info : [kind : {"request"}, method : {"GET", "POST", "patch"},
             url : {"http://a/", "http://a/x"}, headers : HeaderLists, hasBody : BOOLEAN],
     init : {Undefined, Some([method |-> Undefined, headers |-> Undefined,
                              redirect |-> Undefined, others |-> {}])}]
    \cup
    [info : [kind : {"string"}, method : {"GET"},
             url : {"http://a", "http://a/", "http://a/x"}, headers : {NoHeaders},
             hasBody : {FALSE}],
     init : {Undefined} \cup {Some(b) : b \in OptionBags}]
    \cup
    [info : [kind : {"object", "other"}, method : {"GET"}, url : {"http://a/"},
             headers : {NoHeaders}, hasBody : {FALSE}],
     init : {Undefined, Some([method |-> Undefined, headers |-> Undefined,
                              redirect |-> Undefined, others |-> {}])}]

NoPackedRequest == [method |-> "", url |-> "", headers |-> NoHeaders, bodyId |-> Undefined]

\* a packRequest that registers no body
RequestBodyDropped(info, ref) == Undefined

\* info.body (line 88): the Request's stream, or null
RequestBody(info, ref) == IF info.hasBody THEN Some(ref) ELSE Undefined

\* the options of the bag that lines 98-108 reject
Rejected(bag) ==
    {o \in Range(RejectedOptions) :
        IF o = "redirect" THEN bag.redirect \notin {Undefined, Some("follow")}
        ELSE o \in bag.others}

\* the first option of a list that the bag has set to a rejected value
RECURSIVE FirstRejected(_, _)
FirstRejected(bag, options) ==
    IF options = << >> THEN Undefined
    ELSE IF Head(options) \in Rejected(bag) THEN Some(Head(options))
    ELSE FirstRejected(bag, Tail(options))

RequestThrown(error, B) ==
    [ok |-> FALSE, error |-> error, packed |-> NoPackedRequest, B |-> B]

\* packRequest(info, init, bodies): B is the registry and ref the reference of
\* the Request's body stream. error is what the thrown error names.
packRequest(info, init, B, ref) ==
    IF info.kind \in {"request", "object"} /\ init = Undefined
    THEN IF info.kind = "object"
         THEN RequestThrown("TypeError", B)
         ELSE LET r == ComputeBodyId(B, RequestBody(info, ref))
              IN [ok |-> TRUE, error |-> "",
                  packed |-> [method |-> info.method, url |-> info.url,
                              headers |-> HeadersEntries(info.headers),
                              bodyId |-> r.bodyId],
                  B |-> [nextBodyId |-> r.nextBodyId, bodies |-> r.bodies,
                         readers |-> r.readers]]
    ELSE IF info.kind = "string"
    THEN IF init = Undefined
         THEN [ok |-> TRUE, error |-> "",
               packed |-> [method |-> "GET", url |-> info.url, headers |-> NoHeaders,
                           bodyId |-> Undefined],
               B |-> B]
         ELSE LET bag == init[1]
                  bad == FirstRejected(bag, RejectedOptions)
              IN IF bad # Undefined THEN RequestThrown(bad[1], B)
                 ELSE [ok |-> TRUE, error |-> "",
                       packed |-> [method |-> IF bag.method # Undefined
                                              THEN bag.method[1] ELSE "GET",
                                   url |-> info.url,
                                   headers |-> IF bag.headers # Undefined
                                               THEN HeadersEntries(bag.headers[1])
                                               ELSE NoHeaders,
                                   bodyId |-> Undefined],
                       B |-> B]
    ELSE RequestThrown("shape", B)

\* an unpackRequest that builds every request with the default method
unpackRequestDefaultMethod(packed) ==
    [method |-> "GET", url |-> ParseUrl(packed.url),
     headers |-> HeadersEntries(packed.headers),
     resolved |-> IF packed.bodyId = Undefined THEN << >> ELSE <<packed.bodyId[1]>>]

\* unpackRequest(packedRequest, bodyResolver): the Request built (lines
\* 116-119), and resolved, the ids bodyResolver was called with
unpackRequest(packed) ==
    [method |-> NormalizeMethod(packed.method), url |-> ParseUrl(packed.url),
     headers |-> HeadersEntries(packed.headers),
     resolved |-> IF packed.bodyId = Undefined THEN << >> ELSE <<packed.bodyId[1]>>]

\* one call of packRequest on the input drawn at the start, on a registry in
\* which any number of bodies were registered before
PackRequest ==
    /\ packIn # Undefined
    /\ packOut = Undefined
    /\ LET out == packRequest(packIn[1].info, packIn[1].init, TheBodies, Len(streams) + 1)
       IN /\ packOut' = Some([ok |-> out.ok, error |-> out.error, packed |-> out.packed,
                              pre |-> TheBodies, unpacked |-> Undefined])
          /\ nextBodyId' = out.B.nextBodyId
          /\ bodies' = out.B.bodies
          /\ readers' = out.B.readers
          /\ streams' = IF out.B.nextBodyId # nextBodyId
                        THEN Append(streams, NewStream) ELSE streams
    /\ UNCHANGED <<pending, replies, issued, nullIssued, returned, overlapped, packIn,
                   callerVars, observed, tailVars>>

\* unpackRequest on the PackedRequest that packRequest returned
UnpackRequest ==
    /\ packOut # Undefined
    /\ packOut[1].ok
    /\ packOut[1].unpacked = Undefined
    /\ packOut' = Some([packOut[1] EXCEPT !.unpacked = Some(unpackRequest(packOut[1].packed))])
    /\ UNCHANGED <<bodiesVars, packIn, callerVars, observed, tailVars>>

InitRequest ==
    /\ NothingYet
    /\ packIn \in {Some(x) : x \in RequestInputs}
    /\ packOut = Undefined

NextRequest ==
    \/ packOut = Undefined /\ Register
    \/ PackRequest
    \/ UnpackRequest

SpecRequest == InitRequest /\ [][NextRequest]_vars

\* ------------------------------------------------------------------ claims

\* the source of body id: every stream of the heap is registered when it is
\* created, so the id-th registered body is the id-th stream
SourceOf(bodyId) == streams[bodyId]

\* what sequential pulls of a body must return while its source is open, and
\* what they must return once it has closed
Expected(bodyId) ==
    [k \in 1..Len(SourceOf(bodyId).chunks) |->
        [kind |-> "chunk", value |-> Some(<<bodyId, k>>)]]
    \o IF SourceOf(bodyId).state = "closed"
       THEN <<[kind |-> "done", value |-> Undefined]>> ELSE << >>

\* ------------------------------------------------------ class TailController

\* the setTails calls of a run
MaxSetTails == 2

Accounts == {"x", "y"}

Scripts == {"s", "t"}

\* scriptIds: a Set, gone through in insertion order
ScriptIdSets ==
    {q \in SeqsUpTo(Scripts, Cardinality(Scripts)) :
        \A i, j \in DOMAIN q : i # j => q[i] # q[j]}

\* `${accountId}-${scriptId}`
computeTailKey(accountId, scriptId) == <<accountId, "-", scriptId>>

\* dispatchTailsChanged: the keys of the records in state 'started', as passed
\* to onTailsChanged
dispatchTailsChanged(recs) == Some({k \in DOMAIN recs : recs[k] = "started"})

\* setTails from the top of an iteration of its first loop (line 28) to its
\* next await or to its return: the records, the last set dispatched and the
\* call afterwards
RECURSIVE SetTailsRun(_, _, _)
SetTailsRun(recs, changed, call) ==
    IF call.rest = << >>
    THEN \* lines 68-73
         LET stopped == [k \in DOMAIN recs |->
                            IF k \in call.stopKeys THEN "stopping" ELSE recs[k]]
         IN [records |-> stopped,
             changed |-> IF call.stopKeys = {} THEN changed
                         ELSE dispatchTailsChanged(stopped),
             call |-> [call EXCEPT !.pc = "returned"]]
    ELSE LET tailKey == computeTailKey(call.accountId, Head(call.rest))
             kept == [call EXCEPT !.stopKeys = @ \ {tailKey}]
         IN IF tailKey \in DOMAIN recs
            THEN \* lines 32-33, 66
                 LET started == [recs EXCEPT ![tailKey] = "started"]
                 IN SetTailsRun(started, dispatchTailsChanged(started),
                                [kept EXCEPT !.rest = Tail(@)])
            ELSE \* lines 35-40: the call is suspended in createTail
                 [records |-> MapSet(recs, tailKey, "starting"),
                  changed |-> changed,
                  call |-> [kept EXCEPT !.pc = "createTail"]]

\* setTails(accountId, apiToken, scriptIds) is invoked and runs to its first
\* await or to its return
SetTails(accountId, scriptIds) ==
    /\ Len(setTailsCalls) < MaxSetTails
    /\ LET out == SetTailsRun(records, tailsChanged,
                              [accountId |-> accountId, scriptIds |-> scriptIds,
                               rest |-> scriptIds, stopKeys |-> DOMAIN records,
                               pc |-> "running"])
       IN /\ records' = out.records
          /\ tailsChanged' = out.changed
          /\ setTailsCalls' = Append(setTailsCalls, out.call)
    /\ UNCHANGED <<bodiesVars, packVars, callerVars, observed>>

\* createTail resolves for call i: the record the call created becomes
\* 'started' (lines 41-66), and the call runs on to its next await or return
CreateTailResolves(i) ==
    /\ i \in DOMAIN setTailsCalls
    /\ setTailsCalls[i].pc = "createTail"
    /\ LET call == setTailsCalls[i]
           tailKey == computeTailKey(call.accountId, Head(call.rest))
           started == [records EXCEPT ![tailKey] = "started"]
           out == SetTailsRun(started, dispatchTailsChanged(started),
                              [call EXCEPT !.rest = Tail(@), !.pc = "running"])
       IN /\ records' = out.records
          /\ tailsChanged' = out.changed
          /\ setTailsCalls' = [setTailsCalls EXCEPT ![i] = out.call]
    /\ UNCHANGED <<bodiesVars, packVars, callerVars, observed>>

\* createTail rejects for call i: setTails throws at line 40 and does nothing
\* more
CreateTailRejects(i) ==
    /\ i \in DOMAIN setTailsCalls
    /\ setTailsCalls[i].pc = "createTail"
    /\ setTailsCalls' = [setTailsCalls EXCEPT ![i].pc = "thrown"]
    /\ UNCHANGED <<bodiesVars, packVars, callerVars, observed, records, tailsChanged>>

NextTails ==
    \/ \E accountId \in Accounts : \E scriptIds \in ScriptIdSets :
          SetTails(accountId, scriptIds)
    \/ \E i \in 1..MaxSetTails : CreateTailResolves(i)
    \/ \E i \in 1..MaxSetTails : CreateTailRejects(i)

SpecTails == Init /\ [][NextTails]_vars


Registered(bodyId) == bodyId < nextBodyId /\ bodyId <= Len(streams)

Released(bodyId) ==
    Registered(bodyId) /\ bodyId \notin DOMAIN bodies /\ bodyId \notin DOMAIN readers

C1_Drained(bodyId) ==
    LET got == returned[bodyId]
        full == Expected(bodyId)
    IN /\ Len(got) >= Len(full)
       /\ SubSeq(got, 1, Len(full)) = full
       /\ \A k \in (Len(full) + 1)..Len(got) : got[k].kind = "bad"
       /\ SourceOf(bodyId).state = "closed" <=> Released(bodyId)
       /\ Len(got) > Len(full) => Released(bodyId)

C1_State ==
    \A bodyId \in BodyIds :
        (Registered(bodyId) /\ SourceOf(bodyId).state # "errored" /\ bodyId \notin overlapped)
            => C1_Drained(bodyId)

C1_Step == \A bodyId \in BodyIds : Released(bodyId) => Released(bodyId)'

\* C1: sequential pulls of a registered body whose source closes return its
\* chunks in source order with done=false, then one done=true; from then on the
\* id is in neither table, every later pull fails with the bad-body-id error,
\* and a released id stays released whatever registrations and pulls follow.
C1_DrainThenReleased == [](C1_State) /\ [][C1_Step]_vars

\* C1 witness: a body of two chunks pulled four times in sequence: two chunks,
\* done, and the bad-body-id error.
C1_Witness ==
    \E bodyId \in BodyIds :
        /\ Registered(bodyId) /\ SourceOf(bodyId).state = "closed" /\ bodyId \notin overlapped
        /\ Len(SourceOf(bodyId).chunks) = 2
        /\ Len(returned[bodyId]) = 4
        /\ returned[bodyId][4].kind = "bad"

C2_State ==
    /\ issued = [k \in 1..Len(issued) |-> Some(k)]
    /\ nextBodyId = Len(issued) + 1
    /\ nullIssued \subseteq {Undefined}

C2_Step == nullIssued' # nullIssued => UNCHANGED <<nextBodyId, bodies, readers>>

\* C2: over any sequence of computeBodyId and readBodyChunk calls the ids
\* returned for present bodies are 1, 2, 3, ... in call order, none returned
\* twice even after a release, and a call with a null body returns no id and
\* leaves the counter and both tables unchanged.
C2_IdsIncrease == [](C2_State) /\ [][C2_Step]_vars

\* C2 witness: id 1 was issued and released, a null body got no id, and the
\* next body got id 2.
C2_Witness ==
    /\ Len(issued) = 2
    /\ nullIssued = {Undefined}
    /\ 1 \notin DOMAIN bodies
    /\ 2 \in DOMAIN bodies
    /\ \E k \in 1..Len(returned[1]) : returned[1][k].kind = "done"

NeverRegistered(bodyId) == bodyId >= nextBodyId

ErrorReplies(bodyId) ==
    CopiesIn([name |-> "read-body-chunk", bodyId |-> bodyId, error |-> TRUE,
              value |-> Undefined, done |-> FALSE], replies)

C3_State ==
    \A bodyId \in BodyIds : NeverRegistered(bodyId) =>
        /\ \A k \in 1..Len(returned[bodyId]) : returned[bodyId][k].kind = "bad"
        /\ \A i \in DOMAIN pending : pending[i].bodyId # bodyId
        /\ bodyId \notin DOMAIN bodies /\ bodyId \notin DOMAIN readers
        /\ ErrorReplies(bodyId) = Len(returned[bodyId])
        /\ \A m \in BagToSet(replies) : m.bodyId = bodyId => m.error

C3_Step ==
    \A bodyId \in BodyIds :
        (NeverRegistered(bodyId) /\ returned'[bodyId] # returned[bodyId])
            => UNCHANGED <<nextBodyId, bodies, readers>>

\* C3: a pull for an id that was never registered fails with the bad-body-id
\* error, never a silent empty or done result, at readBodyChunk and as an error
\* reply of the 'read-body-chunk' handler, and leaves the counter and both
\* tables unchanged.
C3_UnknownIdFails == [](C3_State) /\ [][C3_Step]_vars

\* C3 witness: a body is registered and being read, and a pull for an id never
\* registered has failed.
C3_Witness ==
    \E bodyId \in BodyIds :
        /\ NeverRegistered(bodyId)
        /\ Len(returned[bodyId]) >= 1
        /\ ErrorReplies(bodyId) >= 1
        /\ DOMAIN readers # {}

\* C4: in the composed system, with several fetch calls and referenced bodies
\* in flight, the chunks enqueued so far on the caller's stream of a body are
\* always a prefix of the chunks its source has produced on the callee side.
C4_ChunksArePrefix ==
    \A bodyId \in DOMAIN cstreams :
        IsPrefix(cstreams[bodyId].enqueued, SourceOf(bodyId).chunks)

RECURSIVE SumCopies(_, _)
SumCopies(S, B) ==
    IF S = {} THEN 0
    ELSE LET x == CHOOSE y \in S : TRUE IN CopiesIn(x, B) + SumCopies(S \ {x}, B)

\* the 'read-body-chunk' requests of a body id the caller has sent and has no
\* reply to yet: on their way, being served, or answered with the reply on its way
Outstanding(bodyId) ==
    CopiesIn(ReadRequest(bodyId), requests)
    + Cardinality({i \in DOMAIN pending : pending[i].bodyId = bodyId})
    + SumCopies({m \in BagToSet(replies) :
                    m.name = "read-body-chunk" /\ m.bodyId = bodyId}, replies)

\* C4 witness: two bodies are being streamed at once, one has two chunks
\* enqueued, the other one chunk and a request outstanding.
C4_Witness ==
    \E a, b \in DOMAIN cstreams :
        /\ a # b
        /\ Len(cstreams[a].enqueued) = 2
        /\ Len(cstreams[b].enqueued) = 1
        /\ Outstanding(b) = 1

C5_Completed(bodyId) ==
    /\ bodyId \in DOMAIN cstreams
    /\ cstreams[bodyId].state = "closed"
    /\ SourceOf(bodyId).state = "closed"
    /\ cstreams[bodyId].yielded = SourceOf(bodyId).chunks
    /\ bodyId \notin DOMAIN bodies
    /\ bodyId \notin DOMAIN readers

C5_SourceFailed(bodyId) ==
    bodyId \in DOMAIN cstreams /\ SourceOf(bodyId).state = "errored"

\* C5: when bodies are received by reference, the consumers keep reading and
\* the channel delivers every message, then eventually, and from then on, every
\* stream the caller has built whose source did not fail has yielded exactly the
\* source's chunks in order and is closed, and the registry holds neither an
\* entry nor a reader for its id.
C5_EventuallyDelivered ==
    <>[](\A bodyId \in DOMAIN cstreams :
            C5_Completed(bodyId) \/ C5_SourceFailed(bodyId))

\* C5 witness: a body of two chunks has been delivered whole and released.
C5_Witness ==
    \E bodyId \in BodyIds :
        C5_Completed(bodyId) /\ Len(cstreams[bodyId].yielded) = 2

\* C6: the caller's stream sends one 'read-body-chunk' request per read request
\* of the consumer and none before the consumer has asked, and none is on its
\* way once a result with done=true has been received.
C6_OneRequestPerRead ==
    \A bodyId \in DOMAIN cstreams :
        /\ cstreams[bodyId].pulls <= cstreams[bodyId].reads
        /\ cstreams[bodyId].closeRequested => Outstanding(bodyId) = 0

\* C7: the caller's stream of a body id never has two 'read-body-chunk'
\* requests outstanding: one is sent only when no other for the id is on its
\* way, being served, or answered but not yet received.
C7_OneOutstanding ==
    \A bodyId \in BodyIds :
        /\ Outstanding(bodyId) <= 1
        /\ Outstanding(bodyId) = 1 =>
              bodyId \in DOMAIN cstreams /\ cstreams[bodyId].pulling

\* C7 witness: two streams each have sent a second request, and each has one
\* request outstanding.
C7_Witness ==
    \E a, b \in DOMAIN cstreams :
        /\ a # b
        /\ cstreams[a].pulls >= 2 /\ Outstanding(a) = 1
        /\ cstreams[b].pulls >= 2 /\ Outstanding(b) = 1

Packed == packOut[1].packed

PackReturned == packOut # Undefined /\ packOut[1].ok

DefinedFields(p) ==
    {f \in {"bodyId", "bodyText", "bodyBytes"} : p[f] # Undefined}

\* C8: every PackedResponse produced by packResponse has at most one of
\* bodyId, bodyText and bodyBytes defined, for every kind of input response.
C8_AtMostOneBody == PackReturned => Cardinality(DefinedFields(Packed)) <= 1

\* C8 witness: a normal response with a body and content-length 1 was packed
\* with the second id of the registry free, and carries bodyBytes alone.
C8_Witness ==
    /\ PackReturned
    /\ ~packIn[1].synthetic /\ packIn[1].hasBody
    /\ packIn[1].contentLength = Some(<<"1">>)
    /\ nextBodyId = 2
    /\ DefinedFields(Packed) = {"bodyBytes"}

\* the header value is a decimal integer: an optional minus sign, then digits
IsDecimalInteger(s) ==
    LET rest == IF s # << >> /\ Head(s) = "-" THEN Tail(s) ELSE s
    IN rest # << >> /\ \A k \in 1..Len(rest) : rest[k] \in Digits

DecimalValue(s) ==
    IF Head(s) = "-" THEN 0 - DigitsVal(Tail(s)) ELSE DigitsVal(s)

\* the content-length header is present, non-negative and at most the threshold
DeclaredWithinThreshold(h) ==
    /\ h # Undefined
    /\ IsDecimalInteger(h[1])
    /\ DecimalValue(h[1]) >= 0
    /\ DecimalValue(h[1]) <= MAX_CONTENT_LENGTH_TO_PACK_OVER_RPC

RegistryUntouched ==
    /\ TheBodies = packOut[1].pre
    /\ Len(streams) = packOut[1].pre.nextBodyId - 1

RegisteredByPack ==
    /\ Packed.bodyId = Some(packOut[1].pre.nextBodyId)
    /\ nextBodyId = packOut[1].pre.nextBodyId + 1
    /\ DOMAIN bodies = DOMAIN packOut[1].pre.bodies \cup {packOut[1].pre.nextBodyId}
    /\ readers = packOut[1].pre.readers

\* C9: a non-synthetic response with a body is packed with bodyBytes, no bodyId
\* and no registry entry if its content-length header is present, non-negative
\* and at most the threshold (the threshold included), and otherwise (absent,
\* negative, not a number, above the threshold) with a registered bodyId and no
\* bodyBytes.
C9_InlineIffDeclaredSmall ==
    (PackReturned /\ ~packIn[1].synthetic /\ packIn[1].hasBody) =>
        IF DeclaredWithinThreshold(packIn[1].contentLength)
        THEN /\ Packed.bodyBytes # Undefined
             /\ Packed.bodyId = Undefined
             /\ RegistryUntouched
        ELSE /\ Packed.bodyId # Undefined
             /\ Packed.bodyBytes = Undefined
             /\ RegisteredByPack

\* C10: a synthetic response whose bodyInit is a string is always packed with
\* bodyText equal to that string and neither bodyId nor bodyBytes, whatever
\* the string's length and the content-length header, and the registry is as
\* before the call.
C10_StringBodyIsText ==
    (packOut # Undefined /\ packIn[1].synthetic /\ packIn[1].initKind = "string") =>
        /\ packOut[1].ok
        /\ Packed = [bodyId |-> Undefined, bodyText |-> Some(packIn[1].text),
                     bodyBytes |-> Undefined]
        /\ RegistryUntouched

\* C10 witness: a string longer than the threshold, under a content-length
\* header of 0, packed by a registry that holds a body.
C10_Witness ==
    /\ PackReturned
    /\ packIn[1].synthetic /\ packIn[1].initKind = "string"
    /\ Len(packIn[1].text) > MAX_CONTENT_LENGTH_TO_PACK_OVER_RPC
    /\ packIn[1].contentLength = Some(<<"0">>)
    /\ DOMAIN bodies # {}
    /\ Packed.bodyText = Some(packIn[1].text)

\* C11: unpackResponse takes bodyText if set, else bodyBytes if set, else the
\* stream the resolver gives for bodyId if set, else no body; the resolver is
\* called, once and with bodyId, exactly when bodyText and bodyBytes are unset
\* and bodyId is set.
C11_BodyByPriority ==
    packOut # Undefined =>
        LET p == packIn[1]
            o == packOut[1]
        IN /\ p.bodyText # Undefined => o.kind = "text" /\ o.value = p.bodyText
           /\ (p.bodyText = Undefined /\ p.bodyBytes # Undefined) =>
                  o.kind = "bytes" /\ o.value = p.bodyBytes
           /\ (p.bodyText = Undefined /\ p.bodyBytes = Undefined /\ p.bodyId # Undefined) =>
                  o.kind = "stream" /\ o.resolved = <<p.bodyId[1]>>
           /\ (p.bodyText = Undefined /\ p.bodyBytes = Undefined /\ p.bodyId = Undefined) =>
                  o.kind = "none"
           /\ o.resolved # << >> <=>
                  (p.bodyText = Undefined /\ p.bodyBytes = Undefined /\ p.bodyId # Undefined)

\* C11 witness: a record with all three fields set, the text the empty string,
\* has been unpacked.
C11_Witness ==
    /\ packOut # Undefined
    /\ packIn[1].bodyText = Some(<< >>)
    /\ packIn[1].bodyBytes # Undefined
    /\ packIn[1].bodyId # Undefined
    /\ packOut[1].kind = "text"

RequestIn == packIn[1]

RequestOut == packOut[1]

PackThrew == packOut # Undefined /\ ~packOut[1].ok

\* C18: packResponse never leaves a partial result: when it fails (malformed
\* synthetic body initializer, or a failure while buffering the body) it
\* returns no PackedResponse and the registry is exactly as before the call;
\* an entry is added only on the paths that return a PackedResponse carrying
\* the id of that entry.
C18_NoPartialResult ==
    packOut # Undefined =>
        /\ PackThrew =>
              \/ packIn[1].synthetic /\ packIn[1].initKind \notin {"string", "stream"}
              \/ ~packIn[1].synthetic
                 /\ Inlinable(ParseInt(ContentLengthOrDefault(packIn[1].contentLength)))
        /\ PackThrew => Packed = NoPacked /\ RegistryUntouched
        /\ RegistryUntouched \/ (PackReturned /\ RegisteredByPack)
        /\ Packed.bodyId # Undefined => RegisteredByPack

\* C18 witness: buffering the body of a response with content-length 1 failed
\* on a registry that held one body.
C18_Witness ==
    /\ PackThrew
    /\ ~packIn[1].synthetic
    /\ packIn[1].contentLength = Some(<<"1">>)
    /\ packOut[1].pre.nextBodyId = 2
    /\ DOMAIN bodies = {1}

\* C19: packResponse on a synthetic response fails whenever the body
\* initializer is neither a string nor a stream (undefined, null or a byte
\* buffer), and succeeds for a string or a stream initializer.
C19_SyntheticBodyInit ==
    (packOut # Undefined /\ packIn[1].synthetic) =>
        /\ packIn[1].initKind \in {"undefined", "null", "bytes"} => PackThrew
        /\ packIn[1].initKind \in {"string", "stream"} => PackReturned
        /\ packIn[1].initKind = "string" => Packed.bodyText = Some(packIn[1].text)
        /\ packIn[1].initKind = "stream" => Packed.bodyId = Some(packOut[1].pre.nextBodyId)

\* C19 witness: a synthetic response whose bodyInit is a byte buffer failed.
C19_Witness ==
    /\ PackThrew
    /\ packIn[1].synthetic
    /\ packIn[1].initKind = "bytes"

\* the consumer of the stream of bodyId stopped reading or cancelled the stream
\* before the terminal chunk
Abandoned(bodyId) ==
    bodyId \in DOMAIN cstreams /\ cstreams[bodyId].consumer \in {"stopped", "cancelled"}

\* readBodyChunk was called for bodyId and got past the lookup, so that a
\* reader was opened
ReaderOpened(bodyId) ==
    \/ \E i \in DOMAIN pending : pending[i].bodyId = bodyId
    \/ \E k \in DOMAIN returned[bodyId] : returned[bodyId][k].kind # "bad"

\* a read of the body found the source at its end
SourceEnded(bodyId) ==
    \E k \in DOMAIN returned[bodyId] : returned[bodyId][k].kind = "done"

Settled == DOMAIN outcomes

\* the callee packed the response served to fetch f inline
PackedInline(f) ==
    /\ ~served[f].response.synthetic
    /\ DeclaredWithinThreshold(served[f].response.contentLength)
    /\ served[f].buf.ok

\* C16: when the callee's response is packed inline (content-length within the
\* threshold, bodyBytes on the wire), the caller of the bridge observes the
\* callee's status and exactly the callee's body bytes, no 'read-body-chunk'
\* request is sent during the exchange and the callee's registry gains no entry.
C16_InlineEndToEnd ==
    \A f \in Settled :
        PackedInline(f) =>
            /\ outcomes[f].state = "resolved"
            /\ outcomes[f].status = served[f].status
            /\ outcomes[f].body = "bytes"
            /\ outcomes[f].value = Some(served[f].buf.bytes)
            /\ Len(fetches) = 1 =>
                  /\ issued = << >> /\ cstreams = << >>
                  /\ \A m \in BagToSet(requests) : m.name # "read-body-chunk"
                  /\ nextBodyId = 1 /\ bodies = << >> /\ readers = << >>

C16_Witness ==
    \E f \in Settled :
        /\ PackedInline(f)
        /\ served[f].status \in NullBodyStatuses
        /\ outcomes[f].state = "rejected"

\* the errors the 'fetch' call of fetch f fails with: packResponse threw in
\* the callee's handler, or the reply decoder threw
CallErrors(f) ==
    {error \in {"bodyInit", "arrayBuffer", "TypeError"} :
        \/ /\ error = "bodyInit"
           /\ served[f].response.synthetic
           /\ served[f].response.initKind \notin {"string", "stream"}
        \/ /\ error = "arrayBuffer"
           /\ ~served[f].response.synthetic
           /\ DeclaredWithinThreshold(served[f].response.contentLength)
           /\ ~served[f].buf.ok
        \/ /\ error = "TypeError"
           /\ PackedInline(f)
           /\ served[f].status \in NullBodyStatuses}

\* C17: if the channel's 'fetch' call fails, the promise of the bridge rejects
\* with that same error; the bridge returns no response and sends the call
\* only once.
C17_CallErrorPropagates ==
    \A f \in Settled :
        /\ \A error \in CallErrors(f) :
              outcomes[f] = [state |-> "rejected", status |-> 0, body |-> "none",
                             value |-> Undefined, error |-> error]
        /\ CallErrors(f) # {} => fetches[f].state = "rejected"
        /\ \A m \in BagToSet(requests) \cup BagToSet(replies) :
              ~(m.name = "fetch" /\ m.fetchId = f)

C17_Witness ==
    \E f \in Settled :
        /\ "arrayBuffer" \in CallErrors(f)
        /\ outcomes[f].state = "rejected"
        /\ outcomes[f].error = "arrayBuffer"

\* C12: a PackedRequest that packRequest produces has a bodyId exactly when the
\* input is a Request whose body is not null; the id is then fresh and
\* registered by the call, and otherwise the registry is as before the call.
C12_BodyIdIffBody ==
    (packOut # Undefined /\ RequestOut.ok) =>
        /\ RequestOut.packed.bodyId # Undefined <=>
               (RequestIn.info.kind = "request" /\ RequestIn.info.hasBody)
        /\ RequestIn.info.kind = "string" => RequestOut.packed.bodyId = Undefined
        /\ RequestOut.packed.bodyId # Undefined =>
               /\ RequestOut.packed.bodyId = Some(RequestOut.pre.nextBodyId)
               /\ RequestOut.pre.nextBodyId \notin DOMAIN RequestOut.pre.bodies
               /\ DOMAIN bodies = DOMAIN RequestOut.pre.bodies \cup {RequestOut.pre.nextBodyId}
               /\ nextBodyId = RequestOut.pre.nextBodyId + 1
        /\ RequestOut.packed.bodyId = Undefined => TheBodies = RequestOut.pre

\* C12 witness: a Request with a body was packed on a registry that held a
\* body already, and got the id 2.
C12_Witness ==
    /\ packOut # Undefined /\ RequestOut.ok
    /\ RequestIn.info.hasBody
    /\ RequestOut.pre.nextBodyId = 2
    /\ RequestOut.packed.bodyId = Some(2)

\* the options the claim lists that a bag has set, redirect counting only when
\* it is not 'follow'
C13_Offending(bag) ==
    (bag.others \cap {"body", "cache", "credentials", "integrity", "keepalive", "mode",
                      "referrer", "referrerPolicy", "signal", "window"})
    \cup (IF bag.redirect \notin {Undefined, Some("follow")} THEN {"redirect"} ELSE {})

\* C13: packRequest on a URL string and an options bag fails, naming one of the
\* offending options, whenever one is set, returns then no PackedRequest and
\* leaves the registry as it was; it succeeds when none is set.
C13_RejectedOptionsFail ==
    (packOut # Undefined /\ RequestIn.info.kind = "string" /\ RequestIn.init # Undefined) =>
        LET bad == C13_Offending(RequestIn.init[1])
        IN /\ bad # {} =>
                /\ ~RequestOut.ok
                /\ RequestOut.error \in bad
                /\ RequestOut.packed = NoPackedRequest
                /\ RequestOut.unpacked = Undefined
                /\ TheBodies = RequestOut.pre
           /\ bad = {} => RequestOut.ok /\ RequestOut.error = ""

\* C13 witness: a bag with window and cache set was rejected naming cache, on a
\* registry that held a body.
C13_Witness ==
    /\ packOut # Undefined
    /\ RequestIn.info.kind = "string" /\ RequestIn.init # Undefined
    /\ RequestIn.init[1].others = {"window", "cache"}
    /\ RequestOut.error = "cache"
    /\ RequestOut.pre.nextBodyId = 2

\* C14: packRequest fails with the unsupported-shape error exactly when its
\* input is neither a Request nor a URL string; every Request and every URL
\* string without a rejected option is packed; a shape failure registers no body.
C14_ShapeErrorIffOtherShape ==
    packOut # Undefined =>
        /\ (~RequestOut.ok /\ RequestOut.error = "shape") <=>
               RequestIn.info.kind \notin {"request", "string"}
        /\ RequestIn.info.kind = "request" => RequestOut.ok
        /\ (RequestIn.info.kind = "string"
              /\ (RequestIn.init # Undefined => C13_Offending(RequestIn.init[1]) = {}))
               => RequestOut.ok
        /\ RequestOut.error = "shape" => TheBodies = RequestOut.pre

\* the request an input of a supported shape stands for: the Request itself,
\* or the Request that new Request(url, { method, headers }) builds
C15_Denoted(x) ==
    IF x.info.kind = "request"
    THEN [method |-> x.info.method, url |-> x.info.url,
          headers |-> HeadersEntries(x.info.headers)]
    ELSE [method |-> IF x.init # Undefined /\ x.init[1].method # Undefined
                     THEN NormalizeMethod(x.init[1].method[1]) ELSE "GET",
          url |-> ParseUrl(x.info.url),
          headers |-> IF x.init # Undefined /\ x.init[1].headers # Undefined
                      THEN HeadersEntries(x.init[1].headers[1]) ELSE NoHeaders]

IsChunk(r) == r.kind = "chunk"

\* the chunks readBodyChunk has returned for bodyId, in order
ChunksReturned(bodyId) ==
    LET got == SelectSeq(returned[bodyId], IsChunk)
    IN [k \in 1..Len(got) |-> got[k].value[1]]

\* the calls of readBodyChunk(bodyId) that have returned r
TimesReturned(bodyId, m) ==
    Cardinality({k \in DOMAIN returned[bodyId] : ReadReply(bodyId, returned[bodyId][k]) = m})

C21_State ==
    \A bodyId \in BodyIds : Registered(bodyId) =>
        /\ SourceOf(bodyId).chunks = ChunksReturned(bodyId)
        /\ \A m \in BagToSet(replies) :
              m.bodyId = bodyId => CopiesIn(m, replies) = TimesReturned(bodyId, m)
        /\ \A k \in DOMAIN returned[bodyId] :
              BagIn(ReadReply(bodyId, returned[bodyId][k]), replies)

C21_Step ==
    \A bodyId \in BodyIds :
        /\ Len(returned'[bodyId]) <= Len(returned[bodyId]) + 1
        /\ SubSeq(returned'[bodyId], 1, Len(returned[bodyId])) = returned[bodyId]
        /\ returned'[bodyId] # returned[bodyId] =>
              /\ replies' = replies (+)
                    SetToBag({ReadReply(bodyId, returned'[bodyId][Len(returned'[bodyId])])})
              /\ returned'[bodyId][Len(returned'[bodyId])].kind # "bad" =>
                    Len(pending') = Len(pending) - 1
        /\ Registered(bodyId) =>
              /\ Len(SourceOf(bodyId).chunks') <= Len(SourceOf(bodyId).chunks) + 1
              /\ SourceOf(bodyId)' # SourceOf(bodyId) => returned'[bodyId] # returned[bodyId]
        /\ Len(pending') > Len(pending) =>
              /\ Len(pending') = Len(pending) + 1
              /\ UNCHANGED <<streams, replies, returned>>

\* C21: each 'read-body-chunk' request handled by the callee results in one
\* readBodyChunk call, which performs one read of the source of that id and
\* produces one reply carrying that read's value and done flag; the registry
\* reads no chunk ahead and buffers none between requests.
C21_OneReadOneReply == [](C21_State) /\ [][C21_Step]_vars

\* C21 witness: two pulls of a body have returned its first two chunks, and
\* the source has been read exactly that far.
C21_Witness ==
    \E bodyId \in BodyIds :
        /\ Registered(bodyId)
        /\ Len(ChunksReturned(bodyId)) = 2
        /\ Len(returned[bodyId]) = 2
        /\ SourceOf(bodyId).state = "open"
        /\ BagCardinality(replies) = 2

\* the calls of readBodyChunk(bodyId) suspended in their read
PendingFor(bodyId) == {i \in DOMAIN pending : pending[i].bodyId = bodyId}

C22_State ==
    \A bodyId \in BodyIds :
        /\ bodyId \in DOMAIN readers =>
              /\ bodyId \in DOMAIN bodies
              /\ readers[bodyId] = bodies[bodyId]
              /\ returned[bodyId] # << >> \/ PendingFor(bodyId) # {}
        /\ \A i \in PendingFor(bodyId) : pending[i].reader = bodyId
        /\ (bodyId \in DOMAIN bodies /\ bodyId \notin DOMAIN readers) =>
              returned[bodyId] = << >> /\ PendingFor(bodyId) = {}

C22_Step ==
    \A bodyId \in BodyIds :
        (bodyId \notin DOMAIN readers /\ bodyId \in DOMAIN readers') =>
            /\ bodyId \in DOMAIN bodies
            /\ returned[bodyId] = << >> /\ PendingFor(bodyId) = {}
            /\ pending' = Append(pending, [bodyId |-> bodyId, reader |-> readers'[bodyId]])

\* C22: the reader over a registered body is opened on the first readBodyChunk
\* for its id and not at registration, and at most once per id: every later
\* pull for the id uses the cached reader, also when two pulls for the id
\* overlap.
C22_ReaderOpenedOnce == [](C22_State) /\ [][C22_Step]_vars

\* C22 witness: two pulls for one id are suspended in their reads together,
\* both on the reader the first one opened.
C22_Witness ==
    \E bodyId \in BodyIds :
        /\ bodyId \in overlapped
        /\ Cardinality(PendingFor(bodyId)) = 2
        /\ returned[bodyId] = << >>
        /\ readers[bodyId] = bodyId

\* C23: in every reachable state of a Bodies instance, under any sequence and
\* interleaving of computeBodyId and readBodyChunk calls, every id that has a
\* cached reader also has a bodies entry, and every id in either table is at
\* least 1 and less than nextBodyId.
C23_TablesConsistent ==
    /\ DOMAIN readers \subseteq DOMAIN bodies
    /\ \A bodyId \in DOMAIN bodies \cup DOMAIN readers :
          bodyId >= 1 /\ bodyId < nextBodyId

\* C23 witness: of two bodies one was released while a pull for it was still
\* suspended, and the other has its reader open.
C23_Witness ==
    /\ nextBodyId = 3
    /\ \E a, b \in 1..2 :
          /\ a # b
          /\ a \notin DOMAIN bodies /\ PendingFor(a) # {}
          /\ b \in DOMAIN readers

\* C24: in the composed system, with one consumer per reconstructed stream and
\* each packed body id unpacked once, no 'read-body-chunk' request is ever
\* sent for an id that is released or was never registered, so the
\* bad-body-id error is unreachable, for any number of concurrent fetches and
\* bodies.
C24_NoBadBodyId ==
    /\ \A m \in BagToSet(requests) :
          m.name = "read-body-chunk" => m.bodyId \in DOMAIN bodies
    /\ \A bodyId \in BodyIds :
          \A k \in DOMAIN returned[bodyId] : returned[bodyId][k].kind # "bad"
    /\ \A m \in BagToSet(replies) :
          (m.name = "read-body-chunk" /\ m.error) => m.bodyId \in DOMAIN bodies

\* C24 witness: two bodies were fetched together; one was read to its end and
\* released, the other has a request on its way.
C24_Witness ==
    \E a, b \in DOMAIN cstreams :
        /\ a # b
        /\ cstreams[a].state = "closed" /\ cstreams[a].sawDone
        /\ a \notin DOMAIN bodies
        /\ Len(returned[a]) = 2
        /\ BagIn(ReadRequest(b), requests)
        /\ Len(returned[b]) = 1

\* a read of the source of bodyId has failed
SourceFailed(bodyId) ==
    \E k \in DOMAIN returned[bodyId] : returned[bodyId][k].kind = "srcerr"

C25_State ==
    \A bodyId \in BodyIds : SourceFailed(bodyId) =>
        /\ bodyId \in DOMAIN bodies
        /\ bodyId \in DOMAIN readers
        /\ readers[bodyId] = bodies[bodyId]
        /\ \A i \in PendingFor(bodyId) : pending[i].reader = readers[bodyId]
        /\ \A k \in DOMAIN returned[bodyId] :
              /\ returned[bodyId][k].kind \in {"chunk", "srcerr"}
              /\ returned[bodyId][k].kind = "srcerr" =>
                    BagIn([name |-> "read-body-chunk", bodyId |-> bodyId, error |-> TRUE,
                           value |-> Undefined, done |-> FALSE], replies)
        /\ \A k \in DOMAIN returned[bodyId] : \A j \in 1..(k - 1) :
              returned[bodyId][j].kind = "srcerr" => returned[bodyId][k].kind = "srcerr"

C25_Step ==
    \A bodyId \in BodyIds :
        (/\ returned'[bodyId] # returned[bodyId]
         /\ returned'[bodyId][Len(returned'[bodyId])].kind = "srcerr")
            => UNCHANGED <<nextBodyId, bodies, readers>>

\* C25: if the read of the underlying source fails during readBodyChunk(id),
\* the call fails with that error and the registry keeps both the bodies
\* entry and the cached reader for id: the entry is not released, and later
\* pulls for id use the same reader and do not fail with the bad-body-id
\* error.
C25_FailedReadKeepsEntry == [](C25_State) /\ [][C25_Step]_vars

\* C25 witness: a body gave one chunk, then its source failed; a later pull
\* went to the same reader and failed with the source's error.
C25_Witness ==
    \E bodyId \in BodyIds :
        /\ Len(returned[bodyId]) = 3
        /\ returned[bodyId][1].kind = "chunk"
        /\ returned[bodyId][2].kind = "srcerr"
        /\ returned[bodyId][3].kind = "srcerr"
        /\ bodyId \in DOMAIN readers
        /\ bodyId \notin overlapped

\* every setTails call that was invoked has returned
AllSetTailsReturned ==
    /\ setTailsCalls # << >>
    /\ \A i \in DOMAIN setTailsCalls : setTailsCalls[i].pc = "returned"

\* the keys the setTails call invoked last asked for
LastRequested ==
    LET call == setTailsCalls[Len(setTailsCalls)]
    IN {computeTailKey(call.accountId, scriptId) : scriptId \in Range(call.scriptIds)}

\* C26: once every setTails call has returned, the tail keys whose record is
\* in state 'started' (the set passed to the last onTailsChanged) are exactly
\* the keys requested by the most recently invoked setTails call, and every
\* other record is 'stopping', for any interleaving in which a later setTails
\* call runs while an earlier one is suspended in createTail.
C26_LastSetTailsWins ==
    AllSetTailsReturned =>
        /\ {k \in DOMAIN records : records[k] = "started"} = LastRequested
        /\ \A k \in DOMAIN records \ LastRequested : records[k] = "stopping"
        /\ tailsChanged # Undefined => tailsChanged = Some(LastRequested)

====
